---- MODULE Spec2Model ----
(***************************************************************************)
(* Request scheduling and KV-cache bookkeeping of the Llama 3 pipeline     *)
(* (pipelines/python/llama3/llama3.py): Llama3Context, Llama3.new_context, *)
(* Llama3.next_token, Llama3._reset_cache, Llama3._execute.                *)
(*                                                                         *)
(* A context is an object created once by new_context.  The caller hands   *)
(* next_token an ordered mapping request id -> context.  One next_token    *)
(* call runs through the phases                                            *)
(*    idle -> execute -> update -> select -> returned -> idle              *)
(* (reconcile + pack + mask, executor call, cache update, token selection  *)
(* and append, return); an exception in a phase leads to "raised".  The    *)
(* locals of the call are dropped when the caller regains control.         *)
(***************************************************************************)
EXTENDS Integers, Sequences, FiniteSets, TLC

\* ---------------------------------------------------------------- bounds
MaxLength     == 2  \* config.max_length of the instance
MaxBatch      == 2  \* largest compiled batch size / mapping size
MaxCacheBatch == 1  \* config.max_cache_batch_size of the instance
MaxTokLen     == 3  \* a context is stepped only while len(tokens) < MaxTokLen

\* ------------------------------------------------------- program constants
EosId     == 2      \* tokenizer.eos_token_id
OtherTok  == 7      \* a token id that is not eos
PromptTok == 5      \* token id the prompt encodes to
PadToken  == 0      \* pad_token default of _batch_tensors_with_padding
VocabSize == 128256 \* Hyperparameters.vocab_size, also the tokenizer's size

MaxPrompt == MaxLength   \* longest encoded prompt
MaxSeq    == MaxLength   \* positions of the KVCache buffer (params.seq_len)

ReqIds == {"a", "b"}
Ctx    == {1, 2}
Tok    == {EosId, OtherTok}
NoCtx  == [created |-> FALSE]

VARIABLES
  config,        \* InferenceConfig of this Llama3 instance
  ctx,           \* Ctx -> Llama3Context (or NoCtx)
  sessions,      \* Llama3._sessions
  seqlen,        \* Llama3._kv_cache.sequence_length
  kv,            \* KVCache buffer: per position and batch row, the writing
                 \* request <<id, context>>
  pc,            \* phase of the running next_token call
  req,           \* req_to_context_dict of the running call
  batched,       \* batched_np_tensor of the running call
  attn_n,        \* n of the attention mask of the running call
  logits,        \* per batch row, the argmax token of the executor's logits
  res,           \* the mapping res of the running call
  prevSessions,  \* _sessions when the running call began
  prevSeqLen,    \* sequence_length when the running call began
  execSeqLen,    \* sequence_length when the executor was invoked
  prevCtx,       \* the contexts as they were when the running call began
  exc,           \* the exception leaving the running call, or "none"
  nsteps,        \* per context, the completed steps that advanced it
  call,          \* the arguments InferenceConfig and new_context were given
  pending,       \* tasks whose next_token call is scheduled, not yet started
  owner,         \* the task whose next_token call is running, 0 for none
  init           \* Llama3.__init__: the stored and the resolved vocabulary
                 \* size, and whether self._tokenizer has been assigned

\* what the steps of a next_token call leave alone
extra == <<call, pending, owner, init>>

vars == <<config, ctx, sessions, seqlen, kv, pc, req, batched, attn_n, logits,
          res, prevSessions, prevSeqLen, execSeqLen, prevCtx, exc, nsteps,
          extra>>

\* ------------------------------------------------------------- helpers
Range(s) == {s[i] : i \in DOMAIN s}

Max(S) == CHOOSE x \in S : \A y \in S : y <= x

Min2(x, y) == IF x <= y THEN x ELSE y

Rep(n, v) == [i \in 1..n |-> v]

Last(s) == s[Len(s)]

Keys(d) == {d[i][1] : i \in DOMAIN d}

\* tokenizer.encode: a prompt of encoded size p
Encode(p) == Rep(p, PromptTok)

\* tokenizer.decode of one token id
Decode(t) == IF t = EosId THEN "</s>" ELSE IF t = OtherTok THEN "w7" ELSE "p"

\* ------------------------------------------------ Llama3Context (pure part)
\* mutant: next_tokens accumulates instead of being replaced
append_extends_next(c, token_ids, decoded) ==
  [c EXCEPT !.next_tokens = c.next_tokens \o token_ids,
            !.tokens = c.tokens \o token_ids,
            !.decoded = Append(c.decoded, decoded)]

\* Llama3Context.append: next_tokens is replaced, tokens and decoded grow.
append(c, token_ids, decoded) ==
  [c EXCEPT !.next_tokens = token_ids,
            !.tokens = c.tokens \o token_ids,
            !.decoded = Append(c.decoded, decoded)]

\* mutant: only eos is tested, the length never ends the request
is_done_eos_only(c, eos) == Last(c.tokens) = eos

\* mutant: only the length is tested, an eos token does not end the request
is_done_length_only(c, eos) == Len(c.tokens) > c.max_tokens

\* Llama3Context.is_done
is_done(c, eos) ==
  IF Last(c.tokens) = eos THEN TRUE
  ELSE IF Len(c.tokens) > c.max_tokens THEN TRUE
  ELSE FALSE

\* mutant: a given cap is used as it is, without the min
max_tokens_to_generate_uncapped(prompt_size, cfg, max_new_tokens) ==
  LET mnt == IF max_new_tokens.given THEN max_new_tokens.v
             ELSE cfg.max_new_tokens
  IN IF mnt < 0 THEN cfg.max_length - prompt_size ELSE mnt

\* _max_tokens_to_generate; max_new_tokens is [given |-> FALSE] for None
max_tokens_to_generate(prompt_size, cfg, max_new_tokens) ==
  LET mnt == IF max_new_tokens.given THEN max_new_tokens.v
             ELSE cfg.max_new_tokens
  IN IF mnt < 0 THEN cfg.max_length - prompt_size
     ELSE Min2(mnt, cfg.max_length - prompt_size)

\* the context Llama3.new_context returns for a prompt of encoded size p
NewContextValue(p, cfg, max_new_tokens) ==
  LET c0 == [created |-> TRUE, prompt |-> p,
             max_tokens |-> p + max_tokens_to_generate(p, cfg, max_new_tokens),
             next_tokens |-> <<>>, tokens |-> <<>>, decoded |-> <<>>]
  IN append(c0, Encode(p), "prompt")

\* ------------------------------------------------------ batching (numpy)
\* np.pad(x, (before, after), constant_values=v) of a 2-D array x: the pair
\* is applied to every axis, rows as well as columns.
NpPad(x, before, after, v) ==
  LET rows == Len(x)
      cols == Len(x[1])
  IN [i \in 1..(before + rows + after) |->
        [j \in 1..(before + cols + after) |->
           IF i > before /\ i <= before + rows /\ j > before /\ j <= before + cols
           THEN x[i - before][j - before] ELSE v]]

Shape(x) == <<Len(x), Len(x[1])>>

\* the list `tensors` of _batch_tensors_with_padding, direction LEFT
PaddedTensors(d, cx) ==
  LET lengths == [i \in DOMAIN d |-> Len(cx[d[i][2]].next_tokens)]
      max_length == Max(Range(lengths))
  IN [i \in DOMAIN d |->
        NpPad(<<cx[d[i][2]].next_tokens>>, max_length - lengths[i], 0, PadToken)]

\* max_length of _batch_tensors_with_padding
BatchMaxLength(d, cx) == Max({Len(cx[d[i][2]].next_tokens) : i \in DOMAIN d})

\* _batch_tensors_with_padding raises: max() of an empty list, np.stack of
\* arrays of different shapes, squeeze(axis=1) of an axis that is not 1.
BatchRaises(d, cx) ==
  \/ d = <<>>
  \/ \E i, j \in DOMAIN d :
       Shape(PaddedTensors(d, cx)[i]) # Shape(PaddedTensors(d, cx)[j])
  \/ \E i \in DOMAIN d : Len(PaddedTensors(d, cx)[i]) # 1

\* batched_np_tensor: np.stack(tensors).squeeze(axis=1)
BatchTensor(d, cx) == [i \in DOMAIN d |-> PaddedTensors(d, cx)[i][1]]

\* _attention_mask: np.ones of shape (batch_size, n_heads, n, n) as bool; one
\* head and one query row stand for all, every entry is True
AttentionMask(batch_size, n) == [b \in 1..batch_size |-> [j \in 1..n |-> TRUE]]

\* ------------------------------------------------------------ reconcile
\* mutant: only joining ids are noticed
SessionsDifferJoinOnly(s, keys) == keys \ s # {}

\* the test of next_token line 197: symmetric difference is non-empty
SessionsDiffer(s, keys) == (s \ keys) \cup (keys \ s) # {}

\* mutant: joining ids are added, leaving ids are kept
ReconcileKeepsLeavers(s, keys) == s \cup keys

\* _sessions after the reconcile
Reconcile(s, keys) == IF SessionsDiffer(s, keys) THEN keys ELSE s

\* mutant: the reset leaves sequence_length as it is
ResetCacheKeeps(n) == n

\* _reset_cache applied to sequence_length
ResetCache(n) == 0

\* mutant: the cache is reset only when an id joins
ReconcileSeqLenJoinOnly(s, keys, n) ==
  IF keys \ s # {} THEN ResetCache(n) ELSE n

\* sequence_length after the reconcile
ReconcileSeqLen(s, keys, n) == IF SessionsDiffer(s, keys) THEN ResetCache(n) ELSE n

\* ---------------------------------------------------------- KVCache
\* KVCache.update: the new slices are written at the positions after
\* sequence_length, one writer per batch row; older content beyond is kept.
KvUpdate(buf, n, d, new_len) ==
  [pos \in 1..Max({Len(buf), n + new_len}) |->
     IF pos > n /\ pos <= n + new_len
     THEN [i \in DOMAIN d |-> d[i]]
     ELSE buf[pos]]

\* KVCache.update: sequence_length advances by the number of new positions
KvSeqLen(n, new_len) == n + new_len

\* KVCache.keys_view / values_view: the first sequence_length positions
KvView(buf, n) == SubSeq(buf, 1, n)

\* mutant: the logits are handed out in the reverse of the packing order
AppendAllReversed(d, cx, lg) ==
  [c \in Ctx |->
     IF \E i \in DOMAIN d : d[i][2] = c
     THEN LET i == CHOOSE i \in DOMAIN d : d[i][2] = c
              r == Len(d) + 1 - i
          IN append(cx[c], <<lg[r]>>, Decode(lg[r]))
     ELSE cx[c]]

\* the dictionary res built by the loop of next_token (lines 203-214)
AppendAll(d, cx, lg) ==
  [c \in Ctx |->
     IF \E i \in DOMAIN d : d[i][2] = c
     THEN LET i == CHOOSE i \in DOMAIN d : d[i][2] = c
          IN append(cx[c], <<lg[i]>>, Decode(lg[i]))
     ELSE cx[c]]

\* mutant: is_done is evaluated before this step's append
ResultBeforeAppend(d, cx, lg) ==
  {<<d[i][1], Decode(lg[i])>> : i \in {j \in DOMAIN d : ~is_done(cx[d[j][2]], EosId)}}

\* the mapping res built by the loop of next_token, as a set of pairs
\* <<request id, fragment>>: an id is added only if its context is not done
\* after this step's append.
ResultOf(d, cx, lg) ==
  LET after == AppendAll(d, cx, lg)
  IN {<<d[i][1], Decode(lg[i])>> : i \in {j \in DOMAIN d : ~is_done(after[d[j][2]], EosId)}}

\* ------------------------------------------------------------------ Init
\* max_new_tokens arguments of new_context: None or 0
MaxArgs == {[given |-> FALSE], [given |-> TRUE, v |-> 0]}

\* the pairs <<request id, context>> a caller can submit within the bounds
Pairs ==
  {x \in ReqIds \X Ctx : ctx[x[2]].created /\ Len(ctx[x[2]].tokens) < MaxTokLen}

\* the mappings a caller can pass: distinct ids, distinct contexts
Inputs ==
  {d \in UNION {[1..n -> Pairs] : n \in 0..MaxBatch} :
     \A i, j \in DOMAIN d : i # j => d[i][1] # d[j][1] /\ d[i][2] # d[j][2]}

\* mutant: the naive cache is forced for every encoding
PostInitAlwaysNaive(a) == [a EXCEPT !.cache_strategy = "naive"]

\* mutant: the requested strategy is kept whatever the encoding
PostInitKeepsRequested(a) == a

\* InferenceConfig.__post_init__: a quantized encoding forces the naive cache
PostInit(a) ==
  IF a.quantization_encoding \notin {"float32", "bfloat16"}
  THEN [a EXCEPT !.cache_strategy = "naive"]
  ELSE a

\* the arguments of the constructor and of the last new_context, none yet
NoCall == [config |-> [given |-> FALSE], new_context |-> [given |-> FALSE]]

\* The state after Llama3.__init__.  batch_size is the static batch dimension
\* the graph is compiled with (config.batch_size, llama3.py lines 128, 165);
\* max_cache_batch_size is a field of the config that llama3.py never reads.
Init ==
  /\ config \in {PostInit(a) : a \in
                   [batch_size : 1..MaxBatch,
                    max_cache_batch_size : {MaxCacheBatch},
                    max_length : {MaxLength},
                    max_new_tokens : {-1},
                    quantization_encoding : {"float32"},
                    cache_strategy : {"continuous"}]}
  /\ ctx = [c \in Ctx |-> NoCtx]
  /\ sessions = {}
  /\ seqlen = 0
  /\ kv = <<>>
  /\ pc = "idle"
  /\ req = <<>>
  /\ batched = <<>>
  /\ attn_n = 0
  /\ logits = <<>>
  /\ res = {}
  /\ prevSessions = {}
  /\ prevSeqLen = 0
  /\ execSeqLen = 0
  /\ prevCtx = [c \in Ctx |-> NoCtx]
  /\ exc = "none"
  /\ nsteps = [c \in Ctx |-> 0]
  /\ call = NoCall
  /\ pending = {}
  /\ owner = 0
  /\ init = [stored |-> VocabSize, vocab_size |-> VocabSize, tokenizer |-> TRUE]

\* --------------------------------------------------------------- actions
\* Llama3.new_context: the next context object is created
NewContext(c, p, mnt) ==
  /\ pc = "idle"
  /\ ~ctx[c].created
  /\ \A b \in Ctx : b < c => ctx[b].created
  /\ ctx' = [ctx EXCEPT ![c] = NewContextValue(p, config, mnt)]
  /\ UNCHANGED <<config, sessions, seqlen, kv, pc, req, batched, attn_n,
                 logits, res, prevSessions, prevSeqLen, execSeqLen, prevCtx,
                 exc, nsteps, extra>>

\* next_token lines 196-199, the reconcile, common to both ways a call begins
Begin(d) ==
  /\ prevSessions' = sessions
  /\ prevSeqLen' = seqlen
  /\ sessions' = Reconcile(sessions, Keys(d))
  /\ seqlen' = ReconcileSeqLen(sessions, Keys(d), seqlen)
  /\ execSeqLen' = seqlen'
  /\ req' = d
  /\ prevCtx' = ctx
  /\ UNCHANGED <<config, ctx, kv, logits, res, nsteps, call, init>>

\* mutant: the mask is sized with sequence_length as it was before the
\* reconcile
PackMaskBeforeReconcile(d) ==
  /\ Begin(d)
  /\ ~BatchRaises(d, ctx)
  /\ ReconcileSeqLen(sessions, Keys(d), seqlen) + BatchMaxLength(d, ctx) <= MaxSeq
  /\ batched' = BatchTensor(d, ctx)
  /\ attn_n' = seqlen + BatchMaxLength(d, ctx)
  /\ pc' = "execute"
  /\ UNCHANGED exc

\* next_token lines 196-199 and _execute lines 264-271: reconcile, pack the
\* batch, build the mask; the executor is invoked next
Pack(d) ==
  /\ Begin(d)
  /\ ~BatchRaises(d, ctx)
  /\ ReconcileSeqLen(sessions, Keys(d), seqlen) + BatchMaxLength(d, ctx) <= MaxSeq
  /\ batched' = BatchTensor(d, ctx)
  /\ attn_n' = seqlen' + BatchMaxLength(d, ctx)
  /\ pc' = "execute"
  /\ UNCHANGED exc

\* the same, when _batch_tensors_with_padding raises: the call ends with the
\* reconcile done and nothing else
PackRaises(d) ==
  /\ Begin(d)
  /\ BatchRaises(d, ctx)
  /\ UNCHANGED <<batched, attn_n>>
  /\ exc' = "ValueError"
  /\ pc' = "raised"

\* next_token called by the one caller of the instance, nothing else running
NextTokenPack(d) ==
  /\ pc = "idle"
  /\ d \in Inputs
  /\ Pack(d)
  /\ UNCHANGED <<pending, owner>>

NextTokenPackRaises(d) ==
  /\ pc = "idle"
  /\ d \in Inputs
  /\ PackRaises(d)
  /\ UNCHANGED <<pending, owner>>

\* the compiled graph has a static batch dimension (_llama_graph)
ShapeMismatch(d, cfg) == Len(d) # cfg.batch_size

\* mutant: the failure restores the session set and sequence_length
ExecutorFailsRollsBack ==
  /\ pc = "execute"
  /\ pc' = "raised"
  /\ exc' = "ExecutorFailure"
  /\ sessions' = prevSessions
  /\ seqlen' = prevSeqLen
  /\ UNCHANGED <<config, ctx, kv, req, batched, attn_n,
                 logits, res, prevSessions, prevSeqLen, execSeqLen, prevCtx,
                 nsteps, extra>>

\* mutant: the first request of the batch still receives its token
ExecutorFailsPartial ==
  /\ pc = "execute"
  /\ pc' = "raised"
  /\ exc' = "ExecutorFailure"
  /\ ctx' = AppendAll(SubSeq(req, 1, 1), ctx, <<OtherTok>>)
  /\ UNCHANGED <<config, sessions, seqlen, kv, req, batched, attn_n,
                 logits, res, prevSessions, prevSeqLen, execSeqLen, prevCtx,
                 nsteps, extra>>

\* _model.execute raises (always on a shape mismatch, possibly otherwise):
\* the exception leaves _execute and next_token
ExecutorFails ==
  /\ pc = "execute"
  /\ pc' = "raised"
  /\ exc' = "ExecutorFailure"
  /\ UNCHANGED <<config, ctx, sessions, seqlen, kv, req, batched, attn_n,
                 logits, res, prevSessions, prevSeqLen, execSeqLen, prevCtx,
                 nsteps, extra>>

\* _model.execute returns logits whose argmax is lg[i] for batch row i
ExecutorReturns(lg) ==
  /\ pc = "execute"
  /\ ~ShapeMismatch(req, config)
  /\ logits' = lg
  /\ pc' = "update"
  /\ UNCHANGED <<config, ctx, sessions, seqlen, kv, req, batched, attn_n,
                 res, prevSessions, prevSeqLen, execSeqLen, prevCtx, exc,
                 nsteps, extra>>

\* mutant: the contexts are appended to in the same step as the cache update
CacheUpdateWithAppend ==
  /\ pc = "update"
  /\ kv' = KvUpdate(kv, seqlen, req, Len(batched[1]))
  /\ seqlen' = KvSeqLen(seqlen, Len(batched[1]))
  /\ ctx' = AppendAll(req, ctx, logits)
  /\ pc' = "select"
  /\ UNCHANGED <<config, sessions, req, batched, attn_n, logits, res,
                 prevSessions, prevSeqLen, execSeqLen, prevCtx, exc, nsteps,
                 extra>>

\* _execute line 289: self._kv_cache.update(k_cache, v_cache)
CacheUpdate ==
  /\ pc = "update"
  /\ kv' = KvUpdate(kv, seqlen, req, Len(batched[1]))
  /\ seqlen' = KvSeqLen(seqlen, Len(batched[1]))
  /\ pc' = "select"
  /\ UNCHANGED <<config, ctx, sessions, req, batched, attn_n, logits, res,
                 prevSessions, prevSeqLen, execSeqLen, prevCtx, exc, nsteps,
                 extra>>

\* next_token lines 203-215: select, decode, append, build and return res
SelectAndAppend ==
  /\ pc = "select"
  /\ ctx' = AppendAll(req, ctx, logits)
  /\ res' = ResultOf(req, ctx, logits)
  /\ pc' = "returned"
  /\ nsteps' = [c \in Ctx |->
                  IF \E i \in DOMAIN req : req[i][2] = c
                  THEN nsteps[c] + 1 ELSE nsteps[c]]
  /\ UNCHANGED <<config, sessions, seqlen, kv, req, batched, attn_n, logits,
                 prevSessions, prevSeqLen, execSeqLen, prevCtx, exc, extra>>

\* the caller has the result or the exception: the locals of the call are gone
CallEnds ==
  /\ pc \in {"returned", "raised"}
  /\ pc' = "idle"
  /\ req' = <<>>
  /\ batched' = <<>>
  /\ attn_n' = 0
  /\ logits' = <<>>
  /\ res' = {}
  /\ prevSessions' = {}
  /\ prevSeqLen' = 0
  /\ execSeqLen' = 0
  /\ prevCtx' = [c \in Ctx |-> NoCtx]
  /\ exc' = "none"
  /\ owner' = 0
  /\ UNCHANGED <<config, ctx, sessions, seqlen, kv, nsteps, call, pending, init>>

Next ==
  \/ \E c \in Ctx, p \in 1..MaxPrompt, mnt \in MaxArgs : NewContext(c, p, mnt)
  \/ \E d \in Inputs : NextTokenPack(d)
  \/ \E d \in Inputs : NextTokenPackRaises(d)
  \/ ExecutorFails
  \/ \E lg \in [1..Len(req) -> Tok] : ExecutorReturns(lg)
  \/ CacheUpdate
  \/ SelectAndAppend
  \/ CallEnds

Spec == Init /\ [][Next]_vars

\* ------------------------------------------- construction and new_context
\* SupportedEncodings of config.py
SupportedEncodings == {"float32", "bfloat16", "q4_0", "q4_k", "q6_k"}

\* the values of KVCacheStrategy that the cache_strategy field documents
KVCacheStrategy == {"naive", "contiguous", "continuous"}

\* llama_arch: the cache strategies registered for an encoding
ArchStrategies(enc) ==
  IF enc \in {"float32", "bfloat16"} THEN {"continuous", "naive"} ELSE {"naive"}

\* the InferenceConfig(...) calls within the bounds
ConfigArgs ==
  [batch_size : {1},
   max_cache_batch_size : {MaxCacheBatch},
   max_length : 1..MaxLength,
   max_new_tokens : -1..(MaxLength - 1),
   quantization_encoding : SupportedEncodings,
   cache_strategy : KVCacheStrategy]

\* the max_new_tokens arguments of new_context: None, or an integer
NewTokenArgs ==
  {[given |-> FALSE]} \cup {[given |-> TRUE, v |-> v] : v \in -1..MaxLength}

NoConfig == [constructed |-> FALSE]

\* before InferenceConfig and Llama3 are constructed
InitConfig ==
  /\ config = NoConfig
  /\ ctx = [c \in Ctx |-> NoCtx]
  /\ sessions = {}
  /\ seqlen = 0
  /\ kv = <<>>
  /\ pc = "new"
  /\ req = <<>>
  /\ batched = <<>>
  /\ attn_n = 0
  /\ logits = <<>>
  /\ res = {}
  /\ prevSessions = {}
  /\ prevSeqLen = 0
  /\ execSeqLen = 0
  /\ prevCtx = [c \in Ctx |-> NoCtx]
  /\ exc = "none"
  /\ nsteps = [c \in Ctx |-> 0]
  /\ call = NoCall
  /\ pending = {}
  /\ owner = 0
  /\ init \in {[stored |-> s, vocab_size |-> s, tokenizer |-> FALSE] :
                 s \in {-1, VocabSize}}

\* InferenceConfig(**a): the dataclass fields are set, then __post_init__ runs
Construct(a) ==
  /\ pc = "new"
  /\ config' = PostInit(a)
  /\ call' = [call EXCEPT !.config = [given |-> TRUE, args |-> a]]
  /\ pc' = "init"
  /\ UNCHANGED <<ctx, sessions, seqlen, kv, req, batched, attn_n, logits, res,
                 prevSessions, prevSeqLen, execSeqLen, prevCtx, exc, nsteps,
                 pending, owner, init>>

\* Llama3.__init__ lines 121-146: a negative stored vocabulary size is
\* replaced by self._tokenizer.vocab_size, which is an AttributeError while
\* the attribute is unassigned; self._tokenizer is assigned afterwards
Llama3Init ==
  /\ pc = "init"
  /\ IF init.vocab_size < 0 /\ ~init.tokenizer
     THEN /\ exc' = "AttributeError"
          /\ pc' = "raised"
          /\ UNCHANGED init
     ELSE /\ init' = [init EXCEPT
                        !.vocab_size = IF init.vocab_size < 0 THEN VocabSize
                                       ELSE init.vocab_size,
                        !.tokenizer = TRUE]
          /\ pc' = "idle"
          /\ UNCHANGED exc
  /\ UNCHANGED <<config, ctx, sessions, seqlen, kv, req, batched, attn_n,
                 logits, res, prevSessions, prevSeqLen, execSeqLen, prevCtx,
                 nsteps, call, pending, owner>>

\* Llama3.new_context(prompt, max_new_tokens) for a prompt of encoded size p
CreateContext(p, mnt) ==
  /\ pc = "idle"
  /\ ~ctx[1].created
  /\ ctx' = [ctx EXCEPT ![1] = NewContextValue(p, config, mnt)]
  /\ call' = [call EXCEPT !.new_context = [given |-> TRUE, p |-> p, mnt |-> mnt]]
  /\ UNCHANGED <<config, sessions, seqlen, kv, pc, req, batched, attn_n,
                 logits, res, prevSessions, prevSeqLen, execSeqLen, prevCtx,
                 exc, nsteps, pending, owner, init>>

NextConfig ==
  \/ \E a \in ConfigArgs : Construct(a)
  \/ Llama3Init
  \/ \E p \in 1..(MaxPrompt + 1), mnt \in NewTokenArgs : CreateContext(p, mnt)

SpecConfig == InitConfig /\ [][NextConfig]_vars

\* ------------------------------------------- concurrent next_token calls
\* two callers on one event loop, each awaiting next_token for its own request
Tasks == Ctx

TaskId(t) == IF t = 1 THEN "a" ELSE "b"

\* the mapping task t passes to next_token
TaskInput(t) == <<<<TaskId(t), t>>>>

\* mutant: the executor call is awaited, the loop may run another task there
AwaitPointsAtExecute == {"execute"}

\* the positions of next_token at which the coroutine yields to the event
\* loop: its body and _execute hold no await
AwaitPoints == {}

\* the event loop can run another task: none is running, or the running
\* coroutine is suspended at an await
LoopFree == pc = "idle" \/ pc \in AwaitPoints

\* a caller schedules next_token(TaskInput(t)); the coroutine has not started
TaskIssue(t) ==
  /\ ctx[t].created
  /\ Len(ctx[t].tokens) < MaxTokLen
  /\ t \notin pending
  /\ owner # t
  /\ pending' = pending \cup {t}
  /\ UNCHANGED <<config, ctx, sessions, seqlen, kv, pc, req, batched, attn_n,
                 logits, res, prevSessions, prevSeqLen, execSeqLen, prevCtx,
                 exc, nsteps, call, owner, init>>

\* the event loop starts the coroutine of task t, which runs to the executor
TaskStart(t) ==
  /\ t \in pending
  /\ LoopFree
  /\ Pack(TaskInput(t))
  /\ owner' = t
  /\ pending' = pending \ {t}
  /\ UNCHANGED init

NextTasks ==
  \/ \E c \in Ctx, p \in 1..MaxPrompt, mnt \in MaxArgs : NewContext(c, p, mnt)
  \/ \E t \in Tasks : TaskIssue(t)
  \/ \E t \in Tasks : TaskStart(t)
  \/ ExecutorFails
  \/ \E lg \in [1..Len(req) -> Tok] : ExecutorReturns(lg)
  \/ CacheUpdate
  \/ SelectAndAppend
  \/ CallEnds

SpecTasks == Init /\ [][NextTasks]_vars

\* ================================================================ claims
Created == {c \in Ctx : ctx[c].created}

\* C1: across next_token steps, len(tokens) of every context never decreases
\* and never exceeds the context's max_tokens.
C1_LenMonotoneWithinMax ==
  [][\A c \in Ctx : ctx'[c].created =>
        /\ Len(ctx'[c].tokens) <= ctx'[c].max_tokens
        /\ ctx[c].created => Len(ctx'[c].tokens) >= Len(ctx[c].tokens)]_vars

\* C2: is_done(eos) is true iff the last token equals the eos id or
\* len(tokens) >= max_tokens.
C2_IsDoneIff ==
  \A c \in Created :
    is_done(ctx[c], EosId) <=>
      (Last(ctx[c].tokens) = EosId \/ Len(ctx[c].tokens) >= ctx[c].max_tokens)

\* C3: once is_done of a context is true, no later next_token step appends a
\* token to it.
C3_DoneNeverAdvanced ==
  [][\A c \in Created : is_done(ctx[c], EosId) => ctx'[c].tokens = ctx[c].tokens]_vars

\* C4: after every completed next_token step, _sessions is exactly the set of
\* request ids supplied to that step.
C4_SessionsAreSupplied == pc = "returned" => sessions = Keys(req)

\* C4 witness: a completed step whose ids both joined and left
C4_Witness ==
  /\ pc = "returned"
  /\ prevSessions \ Keys(req) # {}
  /\ Keys(req) \ prevSessions # {}

\* C5: when a step begins, sequence_length is reset to zero if the supplied id
\* set differs from the previous session set, and is left as it was if the id
\* set is the same.
C5_ResetIffSetDiffers ==
  pc # "idle" =>
    IF prevSessions # Keys(req) THEN execSeqLen = 0 ELSE execSeqLen = prevSeqLen

\* C5 witness: ids only left, the cache held tokens, and it was reset
C5_Witness ==
  /\ pc = "execute"
  /\ Keys(req) \subseteq prevSessions /\ prevSessions # Keys(req)
  /\ prevSeqLen > 0
  /\ execSeqLen = 0

\* C6: under a slot-based cache strategy the number of requests concurrently
\* active (in the session set and advanced by a step) never exceeds
\* max_cache_batch_size.
C6_ActiveWithinCacheBatch ==
  (config.cache_strategy # "naive" /\ pc = "returned") =>
     Cardinality(sessions) <= config.max_cache_batch_size

\* C7: a step given more requests than the cache pool has slots defers the
\* excess requests: at least one supplied context gets no token in that step.
C7_ExcessDeferred ==
  [][(pc = "select" /\ Len(req) > config.max_cache_batch_size) =>
        \E i \in DOMAIN req : ctx'[req[i][2]] = ctx[req[i][2]]]_vars

\* C9: when a request joins (its id was not in the session set when the step
\* began), the cache view handed to the executor is empty: nothing written for
\* a departed request lies in the valid range of the new request.
C9_JoinerSeesEmptyCache ==
  pc = "execute" =>
    \A i \in DOMAIN req :
      req[i][1] \notin prevSessions =>
        /\ KvView(kv, seqlen) = <<>>
        /\ \A pos \in 1..seqlen : i \in DOMAIN kv[pos] => kv[pos][i] = req[i]

\* C9 witness: a new context joins while the buffer still holds what was
\* written for a done request that had already left the session set
C9_Witness ==
  /\ pc = "execute"
  /\ \E i \in DOMAIN req :
       /\ req[i][1] \notin prevSessions
       /\ ctx[req[i][2]].next_tokens = ctx[req[i][2]].tokens
       /\ Len(kv) > 0
       /\ i \in DOMAIN kv[1]
       /\ kv[1][i][1] \notin prevSessions
       /\ kv[1][i][2] # req[i][2]
       /\ is_done(ctx[kv[1][i][2]], EosId)

\* C10: the mapping returned by a step holds exactly the supplied ids whose
\* context is not done after this step's append, each with the fragment
\* decoded in this step; an id whose context is done is absent.
C10_ResultIsLiveIds ==
  pc = "returned" =>
    /\ \A i \in DOMAIN req :
         IF is_done(ctx[req[i][2]], EosId)
         THEN \A x \in res : x[1] # req[i][1]
         ELSE <<req[i][1], Decode(logits[i])>> \in res
    /\ \A x \in res : \E i \in DOMAIN req : x = <<req[i][1], Decode(logits[i])>>

\* C10 witness: a step of two requests, one continuing and one terminated
C10_Witness ==
  /\ pc = "returned"
  /\ \E i, j \in DOMAIN req :
       /\ is_done(ctx[req[i][2]], EosId)
       /\ ~is_done(ctx[req[j][2]], EosId)
       /\ res = {<<req[j][1], Decode(logits[j])>>}

\* the tokens a context generated before the one of the running step
NoEosBefore(c) ==
  \A j \in (c.prompt + 1)..(Len(c.tokens) - 1) : c.tokens[j] # EosId

\* C11: for a single request, every step whose selected token is not eos (no
\* eos before it, len(tokens) within max_tokens) returns the fragment for the
\* request; the step k that selects the first eos returns no entry for it, and
\* len(tokens) is then prompt_len + k.
C11_SingleRequestEndsAtEos ==
  (pc = "returned" /\ Len(req) = 1) =>
    LET id == req[1][1]
        c  == ctx[req[1][2]]
        k  == nsteps[req[1][2]]
    IN /\ (logits[1] # EosId /\ NoEosBefore(c) /\ Len(c.tokens) <= c.max_tokens)
            => res = {<<id, Decode(logits[1])>>}
       /\ (logits[1] = EosId /\ NoEosBefore(c) /\ Len(c.tokens) - 1 <= c.max_tokens)
            => (res = {} /\ Len(c.tokens) = c.prompt + k)

\* C11 witness: a single request whose second step selects the first eos
C11_Witness ==
  /\ pc = "returned" /\ Len(req) = 1
  /\ nsteps[req[1][2]] = 2
  /\ logits[1] = EosId
  /\ NoEosBefore(ctx[req[1][2]])
  /\ Len(ctx[req[1][2]].tokens) - 1 <= ctx[req[1][2]].max_tokens
  /\ res = {}

\* the next_input lengths of the running call and the longest of them
InputLen(i) == Len(prevCtx[req[i][2]].next_tokens)

LongestInput == Max({InputLen(i) : i \in DOMAIN req})

\* C12: with pad direction LEFT and pad token 0, packing returns one row per
\* request, each of length max_length: max_length - L pad tokens followed by
\* the L real tokens of the request.
C12_LeftPadded ==
  (pc # "idle" /\ req # <<>>) =>
    /\ Len(batched) = Len(req)
    /\ \A i \in DOMAIN req :
         batched[i] = Rep(LongestInput - InputLen(i), PadToken)
                        \o prevCtx[req[i][2]].next_tokens

\* C13: the attention mask built for a step marks invalid every padding
\* position of every batch row and no position of a real token.
C13_MaskExcludesPadding ==
  (pc # "idle" /\ req # <<>>) =>
    /\ attn_n = execSeqLen + LongestInput
    /\ \A i \in DOMAIN req : \A j \in 1..LongestInput :
         AttentionMask(Len(req), attn_n)[i][execSeqLen + j]
           = (j > LongestInput - InputLen(i))

\* C15: a prompt that leaves no room for generation (prompt_len >= max_length)
\* is rejected at creation: no context exists for it.
C15_PromptTooLongRejected ==
  \A c \in Created : ctx[c].prompt < config.max_length

\* C17: when the executor call fails, next_token ends with that failure and
\* the step fails for the whole batch: no context of the batch has received a
\* token and there is no result entry.
C17_ExecutorFailureFailsBatch ==
  exc = "ExecutorFailure" =>
    /\ pc = "raised"
    /\ res = {}
    /\ ctx = prevCtx
    /\ logits = <<>>

C17_Witness ==
  /\ pc = "raised"
  /\ exc = "ExecutorFailure"
  /\ Len(req) = 2
  /\ ~ShapeMismatch(req, config)

\* the ids of the session set that the running call no longer carries
Leavers == prevSessions \ Keys(req)

\* the contexts the last completed step wrote to the cache for id
LastContextsOf(id) ==
  IF prevSeqLen = 0 THEN {}
  ELSE {kv[prevSeqLen][i][2] :
          i \in {j \in DOMAIN kv[prevSeqLen] : kv[prevSeqLen][j][1] = id}}

\* C19: an id dropped from the mapping leaves the session set and the cache
\* is released by the one reset of the reconcile, whether or not its context
\* was done: the reconcile never looks at the contexts.
C19_RemovalSameForDoneAndCancelled ==
  (pc # "idle" /\ Leavers # {}) =>
    /\ sessions = Keys(req)
    /\ sessions \cap Leavers = {}
    /\ execSeqLen = 0
    /\ ctx = prevCtx \/ pc = "returned"

\* a cancellation: the id that left was not done
C19_Witness ==
  /\ pc = "execute"
  /\ prevSeqLen > 0
  /\ \E id \in Leavers : \E c \in LastContextsOf(id) :
       ctx[c].created /\ ~is_done(ctx[c], EosId)

\* C20: batch row i is the input of the i-th request of the mapping, and the
\* i-th request receives the token selected from row i of the logits.
C20_RowOrderIsMappingOrder ==
  pc = "returned" =>
    \A i \in DOMAIN req :
      /\ batched[i] = prevCtx[req[i][2]].next_tokens
      /\ ctx[req[i][2]].next_tokens = <<logits[i]>>
      /\ \A f \in {"</s>", "w7", "p"} :
           <<req[i][1], f>> \in res => f = Decode(logits[i])

C20_Witness ==
  /\ pc = "returned"
  /\ Len(req) = 2
  /\ logits[1] # logits[2]
  /\ batched[1] # batched[2]

\* the cap new_context works with: the argument, or config.max_new_tokens
RequestedNewTokens ==
  IF call.new_context.mnt.given THEN call.new_context.mnt.v
  ELSE config.max_new_tokens

\* C14: the context created by new_context has max_tokens =
\* min(prompt_len + requested_new_tokens, max_length) when a non-negative cap
\* is given by argument or by config, and max_tokens = max_length otherwise.
C14_MaxTokensAtCreation ==
  call.new_context.given =>
    /\ RequestedNewTokens >= 0 =>
         ctx[1].max_tokens =
           Min2(call.new_context.p + RequestedNewTokens, config.max_length)
    /\ RequestedNewTokens < 0 => ctx[1].max_tokens = config.max_length

C14_Witness ==
  /\ call.new_context.given
  /\ call.new_context.mnt.given
  /\ RequestedNewTokens >= 1
  /\ call.new_context.p + RequestedNewTokens > config.max_length
  /\ call.new_context.p < config.max_length
  /\ ctx[1].max_tokens = config.max_length

\* C16: for every encoding other than float32 and bfloat16 and every requested
\* cache strategy, the constructed InferenceConfig has cache_strategy NAIVE,
\* which is a strategy the architecture registers for that encoding.
C16_QuantizedForcesNaive ==
  (call.config.given
     /\ call.config.args.quantization_encoding \notin {"float32", "bfloat16"})
  => /\ config.cache_strategy = "naive"
     /\ config.cache_strategy
          \in ArchStrategies(call.config.args.quantization_encoding)

C16_Witness ==
  /\ call.config.given
  /\ call.config.args.quantization_encoding = "q4_k"
  /\ call.config.args.cache_strategy = "continuous"
  /\ config.cache_strategy = "naive"

\* C18: two next_token calls issued concurrently never interleave: a call
\* starts only when no other is running, and every session-set, cache or
\* context mutation of a running call is made for that call's own mapping
\* with the call still the running one.
C18_CallsDoNotInterleave ==
  [][/\ (owner' # owner /\ owner' # 0) => (pc = "idle" /\ owner = 0)
     /\ (owner # 0 /\ pc # "idle"
           /\ <<sessions, seqlen, kv, ctx>>' # <<sessions, seqlen, kv, ctx>>)
          => (owner' = owner /\ req = TaskInput(owner) /\ req' = req)]_vars

\* one call is past the executor while the other, already issued, waits
C18_Witness ==
  /\ owner = 2
  /\ pc = "select"
  /\ pending = {1}
  /\ nsteps[2] >= 1

\* C21: when the stored vocabulary size is negative, constructing the Llama3
\* instance succeeds and its vocabulary size is the tokenizer's.
C21_SentinelResolvedFromTokenizer ==
  (init.stored < 0 /\ pc \notin {"new", "init"}) =>
    /\ pc # "raised"
    /\ init.tokenizer
    /\ init.vocab_size = VocabSize

\* the batch row of context c in the running call
RowOf(c) == CHOOSE i \in DOMAIN req : req[i][2] = c

\* C22: the append loop of a step calls append exactly once on each context
\* of the mapping: tokens grows by the one selected token, next_tokens becomes
\* that single token, the fragment is added to decoded, and no other context
\* changes; a context is created with next_tokens = tokens = encoded prompt.
C22_AppendOncePerContext ==
  [][/\ (pc = "select" /\ pc' = "returned") =>
          \A c \in Ctx :
            IF \E i \in DOMAIN req : req[i][2] = c
            THEN /\ ctx'[c].tokens = Append(ctx[c].tokens, logits[RowOf(c)])
                 /\ ctx'[c].next_tokens = <<logits[RowOf(c)]>>
                 /\ ctx'[c].decoded =
                      Append(ctx[c].decoded, Decode(logits[RowOf(c)]))
            ELSE ctx'[c] = ctx[c]
     /\ \A c \in Ctx : (~ctx[c].created /\ ctx'[c].created) =>
          /\ ctx'[c].tokens = Encode(ctx'[c].prompt)
          /\ ctx'[c].next_tokens = Encode(ctx'[c].prompt)
          /\ ctx'[c].decoded = <<"prompt">>]_vars

C22_Witness ==
  /\ pc = "returned"
  /\ Len(req) = 2
  /\ \E i \in DOMAIN req :
       /\ nsteps[req[i][2]] = 2
       /\ Len(ctx[req[i][2]].decoded) = 3
       /\ Len(ctx[req[i][2]].next_tokens) = 1

\* the order of the phases of one next_token call
PhaseOrder ==
  {<<"idle", "execute">>, <<"idle", "raised">>, <<"execute", "update">>,
   <<"execute", "raised">>, <<"update", "select">>, <<"select", "returned">>,
   <<"returned", "idle">>, <<"raised", "idle">>}

\* C23: a step reconciles, packs and builds the mask, then invokes the
\* executor once, then updates the cache once, then selects and appends: the
\* phases follow one another in that order, the session set changes only at
\* the start, the logits arrive only from the executor call, the cache is
\* written only between the executor call and the append loop, and contexts
\* are appended to only after the cache update.
C23_StepOrder ==
  [][/\ pc' # pc => <<pc, pc'>> \in PhaseOrder
     /\ sessions' # sessions => pc = "idle"
     /\ (batched' # batched /\ batched' # <<>>) =>
          (pc = "idle" /\ pc' = "execute" /\ attn_n' = seqlen' + Len(batched'[1]))
     /\ (logits' # logits /\ logits' # <<>>) =>
          (pc = "execute" /\ pc' = "update")
     /\ (kv' # kv \/ (seqlen' # seqlen /\ pc # "idle")) =>
          (pc = "update" /\ pc' = "select" /\ ctx' = prevCtx)
     /\ (\E c \in Ctx : ctx[c].created /\ ctx'[c] # ctx[c]) =>
          (pc = "select" /\ pc' = "returned"
             /\ seqlen = execSeqLen + Len(batched[1]))]_vars

C23_Witness ==
  /\ pc = "returned"
  /\ prevSessions # sessions
  /\ prevSeqLen > 0
  /\ execSeqLen = 0
  /\ seqlen = Len(batched[1])
  /\ ctx # prevCtx

\* the executor has been invoked in the running call
ExecutorInvoked ==
  pc \in {"execute", "update", "select", "returned"} \/ exc = "ExecutorFailure"

\* C24: the mask passed to the executor has one row per batch row and covers
\* sequence_length + max_padded_length positions, sequence_length being the
\* cache's value after the reconcile of the step and max_padded_length the
\* longest next_input of the batch.
C24_MaskCoversCacheAndInput ==
  ExecutorInvoked =>
    /\ execSeqLen = ReconcileSeqLen(prevSessions, Keys(req), prevSeqLen)
    /\ attn_n = execSeqLen + LongestInput
    /\ Len(AttentionMask(Len(batched), attn_n)) = Len(req)
    /\ \A i \in DOMAIN req :
         Len(AttentionMask(Len(batched), attn_n)[i]) = execSeqLen + LongestInput

C24_Witness ==
  /\ pc = "execute"
  /\ prevSeqLen > 0
  /\ execSeqLen = 0
  /\ Len(req) = 2
  /\ attn_n = LongestInput

\* C25: for float32 and bfloat16, constructing an InferenceConfig leaves
\* cache_strategy as requested, whatever was requested; the constructed
\* config differs from the arguments only for a quantized encoding, and then
\* only in cache_strategy.
C25_FullPrecisionKeepsStrategy ==
  call.config.given =>
    /\ call.config.args.quantization_encoding \in {"float32", "bfloat16"}
         => config = call.config.args
    /\ config # call.config.args =>
         /\ call.config.args.quantization_encoding
              \notin {"float32", "bfloat16"}
         /\ [config EXCEPT !.cache_strategy = call.config.args.cache_strategy]
              = call.config.args

C25_Witness ==
  /\ call.config.given
  /\ call.config.args.quantization_encoding = "bfloat16"
  /\ call.config.args.cache_strategy = "contiguous"
  /\ config.cache_strategy = "contiguous"

\* C26: at every executor invocation the cache's sequence_length plus the
\* length of a request's next_input equals that request's len(tokens).
C26_PositionBaseMatchesTokens ==
  pc = "execute" =>
    \A i \in DOMAIN req :
      execSeqLen + InputLen(i) = Len(prevCtx[req[i][2]].tokens)

\* C27: a context advanced for the first time, its next_input still the whole
\* prompt, meets a cache whose sequence_length is 0.
C27_FreshContextSeesEmptyCache ==
  pc = "execute" =>
    \A i \in DOMAIN req :
      prevCtx[req[i][2]].next_tokens = prevCtx[req[i][2]].tokens
        => execSeqLen = 0

\* C28: the fragment of every appended token that is not eos is in the
\* result mapping of the step that appended it.
C28_NonEosFragmentReturned ==
  pc = "returned" =>
    \A i \in DOMAIN req :
      logits[i] # EosId => <<req[i][1], Decode(logits[i])>> \in res

\* the number of steps after which a request is done whatever is generated
StepBound(c) == Max({1, c.max_tokens - c.prompt + 1})

\* C29: a request that has been advanced by max(1, max_tokens - prompt_len + 1)
\* completed steps or more is omitted from the result mapping, whatever
\* tokens the executor produced.
C29_DoneWithinStepBound ==
  pc = "returned" =>
    \A i \in DOMAIN req :
      nsteps[req[i][2]] >= StepBound(ctx[req[i][2]])
        => /\ req[i][1] \notin {r[1] : r \in res}
           /\ is_done(ctx[req[i][2]], EosId)

\* the bound is met by length alone: two steps, no eos generated
C29_Witness ==
  /\ pc = "returned"
  /\ Len(req) = 1
  /\ nsteps[req[1][2]] = 2
  /\ StepBound(ctx[req[1][2]]) = 2
  /\ \A j \in 1..Len(ctx[req[1][2]].tokens) : ctx[req[1][2]].tokens[j] # EosId
  /\ res = {}

\* C30: when the executor call fails, no context and no cache content is
\* changed by the step, the session set and the sequence_length set by the
\* reconcile stay as the reconcile left them, and the reconcile of a retry
\* with the same mapping changes neither.
C30_FailureKeepsReconcile ==
  [][/\ (pc = "execute" /\ pc' = "raised") =>
          /\ ctx' = prevCtx
          /\ kv' = kv
          /\ sessions' = Keys(req)
          /\ seqlen' = ReconcileSeqLen(prevSessions, Keys(req), prevSeqLen)
     /\ (exc = "ExecutorFailure" /\ pc = "raised" /\ pc' = "idle") =>
          /\ ctx' = prevCtx
          /\ kv' = kv
          /\ Reconcile(sessions', Keys(req)) = sessions'
          /\ ReconcileSeqLen(sessions', Keys(req), seqlen') = seqlen'
          /\ seqlen' = ReconcileSeqLen(prevSessions, Keys(req), prevSeqLen)]_vars

\* a failed step whose reconcile had replaced the session set and reset a
\* non-empty cache
C30_Witness ==
  /\ exc = "ExecutorFailure"
  /\ pc = "raised"
  /\ prevSessions # sessions
  /\ prevSeqLen > 0
  /\ seqlen = 0
  /\ kv # <<>>

====
